---- MODULE Spec2Model ----
(***************************************************************************)
(* Model of app.py: the Streamlit "submitted" handler, the video           *)
(* acquisition step download_video_with_library and the frame sampling /   *)
(* sheet assembly function create_contact_sheet_image.                     *)
(*                                                                         *)
(* One run of the script is one submit of the form.  The handler is        *)
(* sequential; pc is its position, core the state of                       *)
(* create_contact_sheet_image.  An exception that leaves the script ends   *)
(* the run at pc = "crashed": nothing after the raising line is executed.  *)
(* The scratch directory lives on disk and therefore survives from one run *)
(* to the next; every other variable is per run.                           *)
(***************************************************************************)
EXTENDS Integers, Sequences, FiniteSets, TLC

\* ---------------------------------------------------------------- bounds
\* frames the decoder delivers in one run, at most
MaxFrames == 5
\* capture_rate is drawn from 1..MaxRate (the form allows 1..30)
MaxRate == 3
\* the frame rate is the rational fpsNum / FpsDen, fpsNum in 0..MaxFpsNum
FpsDen == 2
MaxFpsNum == 8
\* the reported frame count int(cap.get(7)) is drawn from -1..MaxTotal
MaxTotal == 3
\* column bounds 1..MaxColBound the grid claim is stated for
MaxColBound == 3

\* ------------------------------------------------------ program constants
RESIZED_WIDTH == 240
MinRate == 1

\* sizes (width, height) of the decoded frames of a video
FrameSizes == { <<1080, 1920>>, <<640, 480>> }

\* Python's None for the returned / displayed image: a sheet of no size
NoSheet == [width |-> 0, height |-> 0, pastes |-> <<>>]

AcqOutcomes == {"ok", "DownloadError", "Exception", "missing"}

FailedStates == {"FailedSourceUnreadable", "FailedFrameRateUnavailable",
                 "FailedDecodeError"}
TerminalStates == {"Done", "NoFrames"} \cup FailedStates

VARIABLES
  pc,               \* position of the submitted handler
  core,             \* state of create_contact_sheet_image
  trace,            \* the core states this run went through, in order
  tiktok_url,       \* "" or "url"
  capture_rate,     \* the form's number input
  acq,              \* what the acquisition did: "none" before it ran
  video_path,       \* "None" or "path": first value download returned
  tempDirExists,    \* ./temp_video_for_webapp exists on disk
  cap,              \* "none", "closed" (never opened), "open", "released"
  video_fps,        \* numerator of cap.get(CAP_PROP_FPS), over FpsDen
  frame_total,      \* int(cap.get(7))
  frame_size,       \* <<width, height>> of the decoded frames
  capture_interval,
  frame_count,
  images,           \* thumbnails kept, in append order
  resized,          \* decode indices on which resize() was called
  progress,         \* values handed to the progress bar in this run
  contact_sheet,    \* what create_contact_sheet_image returned
  output            \* what st.image / st.download_button received

vars == <<pc, core, trace, tiktok_url, capture_rate, acq, video_path,
          tempDirExists, cap, video_fps, frame_total, frame_size,
          capture_interval, frame_count, images, resized, progress,
          contact_sheet, output>>

coreVars == <<cap, video_fps, frame_total, frame_size, capture_interval,
              frame_count, images, resized, contact_sheet>>

\* ------------------------------------------------------------- helpers
Min(a, b) == IF a <= b THEN a ELSE b

\* math.floor(video_fps / capture_per_second); 0 becomes 1   (lines 64-66)
\* mutant: math.ceil in place of math.floor
CaptureIntervalCeil(fpsNum, rate) ==
  LET q == (fpsNum + FpsDen * rate - 1) \div (FpsDen * rate)
  IN  IF q = 0 THEN 1 ELSE q

CaptureInterval(fpsNum, rate) ==
  LET q == fpsNum \div (FpsDen * rate)
  IN  IF q = 0 THEN 1 ELSE q

\* frame_count % capture_interval == 0                        (line 78)
\* mutant: the last frame of each interval instead of the first
IsSampledLastOfInterval(count, interval) == (count + 1) % interval = 0

\* mutant: every frame is kept
IsSampledAlways(count, interval) == count >= 0 /\ interval >= 1

IsSampled(count, interval) == count % interval = 0

\* int(RESIZED_WIDTH * (height / width))                      (lines 83-85)
NewHeight(size) == (RESIZED_WIDTH * size[2]) \div size[1]

\* the thumbnail made of the frame with decode index idx      (lines 79-87)
Thumbnail(idx, size) ==
  [index |-> idx, width |-> RESIZED_WIDTH, height |-> NewHeight(size)]

\* contact_sheet.paste(img, (i * width, 0))                   (line 106)
\* mutant: thumbnails stacked downwards
PasteOffsetVertical(i, width, height) == <<0, i * height>>

PasteOffset(i, width, height) == <<i * width, 0>>

\* Image.new('RGB', (total_width, height))                    (lines 101-103)
\* mutant: a wrapped grid of at most two columns
SheetSizeWrapped(imgs) ==
  LET n == Len(imgs)
      c == Min(n, 2)
  IN  <<imgs[1].width * c, imgs[1].height * ((n + c - 1) \div c)>>

SheetSize(imgs) == <<imgs[1].width * Len(imgs), imgs[1].height>>

\* lines 101-108: the canvas and one paste per thumbnail, in list order
CreateSheet(imgs) ==
  LET size == SheetSize(imgs)
      w == imgs[1].width
      h == imgs[1].height
  IN  [width  |-> size[1],
       height |-> size[2],
       pastes |-> [j \in 1..Len(imgs) |->
                     LET off == PasteOffset(j - 1, w, h)
                     IN  [index |-> imgs[j].index, x |-> off[1], y |-> off[2]]]]

\* download_video_with_library's first return value           (lines 16-48)
DownloadedPath(outcome) ==
  IF outcome \in {"DownloadError", "Exception"} THEN "None" ELSE "path"

\* video_path.exists(): the named file is on disk
PathExists(outcome) == outcome = "ok"

\* if video_path and video_path.exists()                      (line 133)
\* mutant: the existence test is dropped
AcquiredNoExistsTest(path, exists) == path # "None" /\ exists \in BOOLEAN

Acquired(path, exists) == path # "None" /\ exists

\* ---------------------------------------------------------------- Init
Init ==
  /\ pc = "idle"
  /\ core = "Idle"
  /\ trace = <<>>
  /\ tiktok_url = ""
  /\ capture_rate = 2
  /\ acq = "none"
  /\ video_path = "None"
  /\ tempDirExists = FALSE
  /\ cap = "none"
  /\ video_fps = 0
  /\ frame_total = 0
  /\ frame_size = <<1080, 1920>>
  /\ capture_interval = 1
  /\ frame_count = 0
  /\ images = <<>>
  /\ resized = <<>>
  /\ progress = {}
  /\ contact_sheet = NoSheet
  /\ output = NoSheet

\* ------------------------------------------------------------- actions
\* lines 117-128: the form is submitted; the script runs from the top
Submit ==
  /\ pc \in {"idle", "end", "crashed"}
  /\ \E url \in {"", "url"}, rate \in MinRate..MaxRate :
       /\ tiktok_url' = url
       /\ capture_rate' = rate
       /\ IF url = ""
            THEN pc' = "end" /\ UNCHANGED tempDirExists
            ELSE pc' = "download" /\ tempDirExists' = TRUE
  /\ core' = "Idle"
  /\ trace' = <<>>
  /\ acq' = "none"
  /\ video_path' = "None"
  /\ cap' = "none"
  /\ video_fps' = 0
  /\ frame_total' = 0
  /\ frame_size' = <<1080, 1920>>
  /\ capture_interval' = 1
  /\ frame_count' = 0
  /\ images' = <<>>
  /\ resized' = <<>>
  /\ progress' = {}
  /\ contact_sheet' = NoSheet
  /\ output' = NoSheet

\* lines 131-137: acquisition, its test, and the creation of the bar
Download ==
  /\ pc = "download"
  /\ \E outcome \in AcqOutcomes :
       /\ acq' = outcome
       /\ video_path' = DownloadedPath(outcome)
       /\ IF Acquired(DownloadedPath(outcome), PathExists(outcome))
            THEN /\ pc' = "core"
                 /\ core' = "Opening"
                 /\ trace' = <<"Opening">>
                 /\ progress' = {[num |-> 0, den |-> 1, text |-> "step2"]}
            ELSE /\ pc' = "cleanup"
                 /\ UNCHANGED <<core, trace, progress>>
  /\ UNCHANGED <<tiktok_url, capture_rate, tempDirExists, output>>
  /\ UNCHANGED coreVars

\* lines 53-69: open, read the metadata, derive the interval
Open ==
  /\ pc = "core" /\ core = "Opening"
  /\ \E opened \in BOOLEAN, fps \in 0..MaxFpsNum, total \in -1..MaxTotal,
        size \in FrameSizes :
       IF ~opened
         THEN /\ cap' = "closed"
              /\ core' = "FailedSourceUnreadable"
              /\ pc' = "after"
              /\ UNCHANGED <<video_fps, frame_total, frame_size,
                             capture_interval>>
         ELSE /\ video_fps' = fps
              /\ frame_total' = total
              /\ frame_size' = size
              /\ cap' = "open"
              /\ IF fps = 0
                   THEN /\ core' = "FailedFrameRateUnavailable"
                        /\ pc' = "after"
                        /\ UNCHANGED capture_interval
                   ELSE /\ capture_interval' = CaptureInterval(fps, capture_rate)
                        /\ core' = "Sampling"
                        /\ pc' = "core"
  /\ trace' = Append(trace, core')
  /\ UNCHANGED <<tiktok_url, capture_rate, acq, video_path, tempDirExists,
                 frame_count, images, resized, progress, contact_sheet,
                 output>>

\* lines 74-93 with ret true: one pass of the loop body
SampleFrame ==
  /\ pc = "core" /\ core = "Sampling"
  /\ frame_count < MaxFrames
  /\ IF IsSampled(frame_count, capture_interval)
       THEN /\ resized' = Append(resized, frame_count)
            /\ images' = Append(images, Thumbnail(frame_count, frame_size))
       ELSE UNCHANGED <<resized, images>>
  /\ frame_count' = frame_count + 1
  /\ IF frame_total > 0
       THEN progress' = progress \cup
              {[num |-> frame_count + 1, den |-> frame_total,
                text |-> "extract"]}
       ELSE UNCHANGED progress
  /\ UNCHANGED <<pc, core, trace, tiktok_url, capture_rate, acq, video_path,
                 tempDirExists, cap, video_fps, frame_total, frame_size,
                 capture_interval, contact_sheet, output>>

\* lines 74-99 with ret false: leave the loop, release, test for no images
EndOfStream ==
  /\ pc = "core" /\ core = "Sampling"
  /\ cap' = "released"
  /\ IF images = <<>>
       THEN core' = "NoFrames" /\ pc' = "after"
       ELSE core' = "Assembling" /\ pc' = "core"
  /\ trace' = Append(trace, core')
  /\ UNCHANGED <<tiktok_url, capture_rate, acq, video_path, tempDirExists,
                 video_fps, frame_total, frame_size, capture_interval,
                 frame_count, images, resized, progress, contact_sheet,
                 output>>

\* mutant: the exception is caught in the loop, which is left as at the end
\* of the stream, so that the frames kept so far are assembled
DecodeRaiseSwallowed ==
  /\ pc = "core" /\ core = "Sampling"
  /\ core' = "FailedDecodeError"
  /\ pc' = "after"
  /\ cap' = "released"
  /\ contact_sheet' = IF images = <<>> THEN NoSheet ELSE CreateSheet(images)
  /\ trace' = Append(trace, core')
  /\ UNCHANGED <<tiktok_url, capture_rate, acq, video_path, tempDirExists,
                 video_fps, frame_total, frame_size, capture_interval,
                 frame_count, images, resized, progress, output>>

\* lines 73-93: a call of the loop body raises (cap.read, cvtColor, the
\* division by a zero width, resize, the progress bar).  Nothing catches
\* it, in the function or in the script: the run stops there.
DecodeRaise ==
  /\ pc = "core" /\ core = "Sampling"
  /\ core' = "FailedDecodeError"
  /\ pc' = "crashed"
  /\ trace' = Append(trace, core')
  /\ UNCHANGED <<tiktok_url, capture_rate, acq, video_path, tempDirExists,
                 progress, output>>
  /\ UNCHANGED coreVars

\* lines 101-108
Assemble ==
  /\ pc = "core" /\ core = "Assembling"
  /\ contact_sheet' = CreateSheet(images)
  /\ core' = "Done"
  /\ pc' = "after"
  /\ trace' = Append(trace, core')
  /\ UNCHANGED <<tiktok_url, capture_rate, acq, video_path, tempDirExists,
                 cap, video_fps, frame_total, frame_size, capture_interval,
                 frame_count, images, resized, progress, output>>

\* lines 141-159: the bar is filled; a returned image is shown and offered
AfterCore ==
  /\ pc = "after"
  /\ progress' = progress \cup {[num |-> 1, den |-> 1, text |-> "done"]}
  /\ output' = IF contact_sheet # NoSheet THEN contact_sheet ELSE output
  /\ pc' = "cleanup"
  /\ UNCHANGED <<core, trace, tiktok_url, capture_rate, acq, video_path,
                 tempDirExists>>
  /\ UNCHANGED coreVars

\* lines 162-163
Cleanup ==
  /\ pc = "cleanup"
  /\ tempDirExists' = FALSE
  /\ pc' = "end"
  /\ UNCHANGED <<core, trace, tiktok_url, capture_rate, acq, video_path,
                 progress, output>>
  /\ UNCHANGED coreVars

\* the steps the script takes by itself once submitted
Run ==
  \/ Download
  \/ Open
  \/ SampleFrame
  \/ EndOfStream
  \/ DecodeRaise
  \/ Assemble
  \/ AfterCore
  \/ Cleanup

Next == Submit \/ Run

Spec == Init /\ [][Next]_vars

\* A started script runs on until it ends or an exception leaves it; whether
\* the form is submitted again is up to the user.
FairSpec == Init /\ [][Next]_vars /\ WF_vars(Run)

TypeOK ==
  /\ pc \in {"idle", "download", "core", "after", "cleanup", "end", "crashed"}
  /\ core \in {"Idle", "Opening", "Sampling", "Assembling"} \cup TerminalStates
  /\ capture_rate \in MinRate..MaxRate
  /\ acq \in AcqOutcomes \cup {"none"}
  /\ cap \in {"none", "closed", "open", "released"}
  /\ frame_count \in 0..MaxFrames
  /\ capture_interval \in Nat
  /\ tempDirExists \in BOOLEAN

\* ------------------------------------------------------------ properties
PastSampling == {"Assembling", "Done", "NoFrames"}
IntervalKnown == {"Sampling", "FailedDecodeError"} \cup PastSampling

\* C1: no terminal state of create_contact_sheet_image (Done, NoFrames or a
\* Failed state) is reached with the decode handle opened at the start still
\* held.
C1_HandleReleasedAtTerminal ==
  core \in TerminalStates => cap # "open"

\* C2: once the scratch directory has been created for a submitted,
\* non-empty URL, it is eventually removed, whatever the outcome of the run.
C2_ScratchDirEventuallyRemoved ==
  (pc = "download" /\ tempDirExists) ~> ~tempDirExists

\* C3 as stated: for every column bound C the sheet of N thumbnails has
\* min(N, C) columns and ceil(N / columns) rows, and the canvas is
\* columns * thumbnailWidth by rows * thumbnailHeight.
C3_GridLayoutBounded ==
  contact_sheet # NoSheet =>
    \A C \in 1..MaxColBound :
      LET N == Len(images)
          columns == Min(N, C)
          rows == (N + columns - 1) \div columns
      IN  /\ columns * rows >= N
          /\ columns <= C
          /\ contact_sheet.width = columns * images[1].width
          /\ contact_sheet.height = rows * images[1].height

\* C3 amended: the sheet is a single row: columns = N and rows = 1, which is
\* min(N, C) and ceil(N / columns) for the column bounds C >= N only; the
\* canvas is N * thumbnailWidth wide and one thumbnailHeight high.
C3_SingleRowLayout ==
  contact_sheet # NoSheet =>
    LET N == Len(images)
        columns == contact_sheet.width \div images[1].width
        rows == contact_sheet.height \div images[1].height
    IN  /\ N >= 1
        /\ columns = N
        /\ rows = 1
        /\ columns * rows >= N
        /\ contact_sheet.width = columns * images[1].width
        /\ contact_sheet.height = rows * images[1].height
        /\ \A C \in N..(MaxFrames + MaxColBound) :
             columns = Min(N, C) /\ rows = (N + columns - 1) \div columns

C3_Witness ==
  /\ core = "Done"
  /\ contact_sheet # NoSheet
  /\ Len(images) > MaxColBound

\* C4 as stated: a stream with fewer decoded frames than the sample interval
\* yields no sampled frame and ends in NoFrames.
C4_ShortVideoNoFrames ==
  (core \in PastSampling /\ frame_count < capture_interval) =>
    (images = <<>> /\ core = "NoFrames")

\* C4 amended: when the stream ends after T decoded frames with
\* 1 <= T < interval, exactly one frame, the one with index 0, has been
\* sampled and the run goes on to assemble a sheet of one thumbnail;
\* NoFrames is reached exactly when the decoder delivered no frame at all.
C4_ShortVideoOneFrame ==
  core \in PastSampling =>
    /\ (core = "NoFrames") <=> (frame_count = 0)
    /\ (1 <= frame_count /\ frame_count < capture_interval) =>
         /\ Len(images) = 1
         /\ images[1].index = 0
         /\ core \in {"Assembling", "Done"}
         /\ core = "Done" =>
              /\ contact_sheet # NoSheet
              /\ Len(contact_sheet.pastes) = 1

C4_Witness ==
  /\ core = "Done"
  /\ 1 <= frame_count
  /\ frame_count < capture_interval
  /\ Len(images) = 1

\* C5: for a frame rate f > 0 and a sample rate r >= 1 the capture interval
\* is max(1, floor(f / r)): it is at least 1, it is 1 when f < r, and
\* otherwise interval * r <= f < (interval + 1) * r.
C5_CaptureInterval ==
  (core \in IntervalKnown /\ video_fps > 0 /\ capture_rate >= 1) =>
    LET rd == capture_rate * FpsDen
    IN  /\ capture_interval >= 1
        /\ video_fps < rd => capture_interval = 1
        /\ video_fps >= rd =>
             /\ capture_interval * rd <= video_fps
             /\ video_fps < (capture_interval + 1) * rd

C5_Witness ==
  /\ core = "Sampling"
  /\ video_fps > 0
  /\ video_fps < capture_rate * FpsDen
  /\ capture_interval = 1

\* C6: thumbnail i (0-based, decode order) is pasted at
\* ((i mod columns) * thumbnailWidth, (i div columns) * thumbnailHeight),
\* columns being the number of columns of the sheet; the pastes are the
\* thumbnails in decode order.
C6_PlacementByIndex ==
  contact_sheet # NoSheet =>
    LET w == images[1].width
        h == images[1].height
        columns == contact_sheet.width \div w
        pastes == contact_sheet.pastes
    IN  /\ Len(pastes) = Len(images)
        /\ \A j \in 1..Len(images) :
             /\ pastes[j].index = images[j].index
             /\ pastes[j].x = ((j - 1) % columns) * w
             /\ pastes[j].y = ((j - 1) \div columns) * h
             /\ j > 1 => pastes[j - 1].index < pastes[j].index

C6_Witness ==
  /\ output # NoSheet
  /\ Len(output.pastes) >= 2
  /\ output.pastes[2].x = RESIZED_WIDTH

\* C7: a run whose decoder raised during Sampling ends as a crash with no
\* image returned or handed to the output sink, and the output sink holds an
\* image only in a run that went Opening, Sampling, Assembling, Done.
C7_NoPartialSheet ==
  /\ core = "FailedDecodeError" =>
       /\ pc = "crashed"
       /\ contact_sheet = NoSheet
       /\ output = NoSheet
  /\ output # NoSheet =>
       trace = <<"Opening", "Sampling", "Assembling", "Done">>

C7_Witness ==
  /\ core = "FailedDecodeError"
  /\ Len(images) >= 1
  /\ output = NoSheet

\* C8: after a failed acquisition (a download error, another exception, or
\* a returned path that is not on disk) create_contact_sheet_image is not
\* entered and nothing is output.
C8_CoreNotInvokedAfterFailedAcquisition ==
  acq \in {"DownloadError", "Exception", "missing"} =>
    /\ trace = <<>>
    /\ core = "Idle"
    /\ cap = "none"
    /\ contact_sheet = NoSheet
    /\ output = NoSheet

C8_Witness ==
  /\ acq = "missing"
  /\ pc = "end"
  /\ trace = <<>>

\* C9: after T decoded frames with interval k the frames resized and kept
\* are exactly those with index i < T and i mod k = 0, in increasing order,
\* and their number n is ceil(T / k): (n - 1) * k < T <= n * k.
C9_SampledFrames ==
  core \in IntervalKnown =>
    LET T == frame_count
        k == capture_interval
        n == Len(images)
    IN  /\ Len(resized) = n
        /\ \A j \in 1..n :
             /\ images[j].index = (j - 1) * k
             /\ resized[j] = images[j].index
        /\ \A i \in 0..(T - 1) :
             (i % k = 0) <=> (\E j \in 1..n : images[j].index = i)
        /\ (n - 1) * k < T
        /\ T <= n * k

C9_Witness ==
  /\ core = "Assembling"
  /\ capture_interval = 2
  /\ frame_count = 5
  /\ Len(images) = 3

\* C10: every value the sampling loop hands to the progress bar lies in
\* [0, 1], whatever number of frames the decoder delivers, and the loop
\* reports nothing when the reported total is not positive.
C10_ProgressWithinUnitInterval ==
  /\ \A p \in progress : 0 <= p.num /\ p.num <= p.den
  /\ frame_total <= 0 => \A p \in progress : p.text # "extract"

====
